---------------------------- MODULE Spec2Model ----------------------------
(***************************************************************************)
(* A model of the redaction engine of EDR_v2 (src/modules/redaction.py):   *)
(* redact_text, markdown_to_table_data and the three exporters,            *)
(* the PDF branch of extract_text_from_file, and redact_file_content.      *)
(*                                                                         *)
(* A Python str is a sequence of one-character strings.                    *)
(***************************************************************************)
EXTENDS Integers, Sequences, FiniteSets, TLC

(***************************************************************************)
(* Bounds of the model.                                                    *)
(***************************************************************************)
\* longest text handed to redact_text
MaxLen == 14
\* longest entity list handed to redact_text
MaxEnts == 2
\* most lines of a markdown text handed to an exporter
MaxLines == 4
\* most pages of a PDF handed to extract_text_from_file
MaxPages == 2

(***************************************************************************)
(* The state.                                                              *)
(***************************************************************************)
VARIABLES
    text,           \* redact_text: the text argument
    entities,       \* redact_text: the entities argument, when it is a list
    entitiesNone,   \* redact_text: TRUE when the entities argument is None
    ents,           \* redact_text: the local list after sorted()
    redacted_text,  \* redact_text: the working text
    offset,         \* redact_text: the running offset
    i,              \* redact_text: position of the for loop (1-based)
    pc,             \* redact_text: "call", "loop", "returned", "raised"
    result,         \* redact_text: the value returned
    lastSlice,      \* redact_text: start, end, padding of the last iteration
    calls,          \* 1 on redact(text, E), 2 on redact(redact(text, E), [])
    firstText,      \* the text of the first call
    firstEntities,  \* the entities of the first call
    firstResult     \* the result of the first call

redactVars == << text, entities, entitiesNone, ents, redacted_text, offset, i, pc, result,
                 lastSlice, calls, firstText, firstEntities, firstResult >>

VARIABLES
    markdown_text,      \* the text handed to convert_to_original_format
    original_filename,  \* its extension
    xpc,                \* "start", "table", "render", "done", "raised"
    lines,              \* markdown_to_table_data: markdown_text.split('\n')
    line_idx,           \* markdown_to_table_data: position of the for loop
    table_data,         \* markdown_to_table_data: the rows captured
    docx_shape,         \* markdown_to_docx: rows and cols of add_table
    docx_writes,        \* markdown_to_docx: the cells written, in order
    pdf_table,          \* markdown_to_pdf: the data of the Table flowable
    img_size,           \* markdown_to_image: width and height of the canvas
    img_rects,          \* markdown_to_image: the rectangles drawn
    img_texts,          \* markdown_to_image: where the plain lines are drawn
    paragraphs,         \* the plain-text paragraphs or lines emitted, in order
    out_bytes           \* the text encoded as it is (txt and unknown targets)

exportVars == << markdown_text, original_filename, xpc, lines, line_idx, table_data,
                 docx_shape, docx_writes, pdf_table, img_size, img_rects,
                 img_texts, paragraphs, out_bytes >>

VARIABLES
    file_ext,        \* the extension of file_obj.name
    file_content,    \* txt, docx: the decoded text; pdf: the text of each page
    labels,          \* redact_file_content: the labels argument
    threshold,       \* redact_file_content: the threshold argument, in tenths
    fpc,             \* "start", "pages", "extracted", "detected", "returned", "raised"
    page_num,        \* extract_text_from_file: pages done
    pdf_text,        \* extract_text_from_file: the text accumulated over the pages
    emitted,         \* what each page visited was given: page, ocr, found, body
    original_text,   \* redact_file_content: the text extracted, when it is a str
    original_none,   \* redact_file_content: TRUE when extraction returned None
    detector_log,    \* the arguments of every model.predict_entities call
    detected,        \* redact_file_content: the entities the detector returned
    ret,             \* redact_file_content: the tuple returned
    trace            \* the calls made so far: "extract", "detect", "redact"

fileVars == << file_ext, file_content, labels, threshold, fpc, page_num, pdf_text,
               emitted, original_text, original_none, detector_log, detected, ret,
               trace >>

(***************************************************************************)
(* Python helpers.                                                         *)
(***************************************************************************)
Min(a, b) == IF a < b THEN a ELSE b

Max(a, b) == IF a > b THEN a ELSE b

\* A slice index as Python normalises it against a sequence of length n.
PyIndex(k, n) == IF k < 0 THEN Max(k + n, 0) ELSE Min(k, n)

\* s[lo:hi]
PySlice(s, lo, hi) ==
    LET a == PyIndex(lo, Len(s))
        b == PyIndex(hi, Len(s))
    IN  IF a >= b THEN << >> ELSE SubSeq(s, a + 1, b)

\* s[:hi]
PyHead(s, hi) == PySlice(s, 0, hi)

\* s[lo:]
PyTail(s, lo) == PySlice(s, lo, Len(s))

\* " " * k  (the empty string when k <= 0)
Spaces(k) == [j \in 1..k |-> " "]

\* str.upper() on one character, over the letters the labels use
UpperChar(c) ==
    CASE c = "a" -> "A"
      [] c = "b" -> "B"
      [] c = "x" -> "X"
      [] OTHER   -> c

\* str.upper()
Upper(s) == [j \in 1..Len(s) |-> UpperChar(s[j])]

(***************************************************************************)
(* redact_text                                                             *)
(***************************************************************************)

\* f"[REDACTED {label.upper()}]"
RedactedLabel(label) ==
    << "[", "R", "E", "D", "A", "C", "T", "E", "D", " " >> \o Upper(label) \o << "]" >>

\* the sort key: (x["start"], -(x["end"] - x["start"]))
KeyLess(a, b) ==
    \/ a.start < b.start
    \/ a.start = b.start /\ (0 - (a.end - a.start)) < (0 - (b.end - b.start))

\* e placed after every element of the sorted list s whose key is <= e's key
InsertSorted(e, s) ==
    LET k == Cardinality({j \in 1..Len(s) : ~KeyLess(e, s[j])})
    IN  SubSeq(s, 1, k) \o << e >> \o SubSeq(s, k + 1, Len(s))

RECURSIVE SortFrom(_, _)
SortFrom(es, n) ==
    IF n = 0 THEN << >> ELSE InsertSorted(es[n], SortFrom(es, n - 1))

\* a list left in the order it arrived in
Unsorted(es) == es

\* sorted(entities, key=...): stable, ascending start, longer span first
SortEntities(es) == SortFrom(es, Len(es))

\* a buffer that starts empty instead of as a copy of the text
InitialEmpty(t) == << >>

\* redacted_text = text
InitialRedacted(t) == t

\* no padding at all
PaddingNone(entity_text, redacted_label) == << >>

\* " " * max(0, len(entity_text) - len(redacted_label))
Padding(entity_text, redacted_label) ==
    Spaces(Max(0, Len(entity_text) - Len(redacted_label)))

\* the offset advanced by the marker alone, the padding forgotten
OffsetUpdateNoPadding(off, redacted_label, padding, entity_text) ==
    off + Len(redacted_label) - Len(entity_text)

\* the offset assigned (=) where the code adds (+=)
OffsetUpdateOverwrite(off, redacted_label, padding, entity_text) ==
    Len(redacted_label \o padding) - Len(entity_text)

\* offset += len(redacted_label + padding) - len(entity_text)
OffsetUpdate(off, redacted_label, padding, entity_text) ==
    off + Len(redacted_label \o padding) - Len(entity_text)

\* One iteration of the for loop on the working text rt and offset off.
LoopBody(rt, off, entity) ==
    LET start == entity.start + off
        end == entity.end + off
        entity_text == PySlice(rt, start, end)
        redacted_label == RedactedLabel(entity.label)
        padding == Padding(entity_text, redacted_label)
    IN  [ redacted_text |-> PyHead(rt, start) \o redacted_label \o padding \o PyTail(rt, end),
          offset |-> OffsetUpdate(off, redacted_label, padding, entity_text),
          slice |-> [ start |-> start, end |-> end, before |-> Len(rt),
                      padding |-> Len(entity_text) - Len(redacted_label) ] ]

RECURSIVE LoopFrom(_, _, _, _)
LoopFrom(rt, off, es, n) ==
    IF n > Len(es) THEN rt
    ELSE LET r == LoopBody(rt, off, es[n])
         IN  LoopFrom(r.redacted_text, r.offset, es, n + 1)

\* redact_text(t, es) for a list es, as one function
RedactText(t, es) == LoopFrom(InitialRedacted(t), 0, SortEntities(es), 1)

NoSlice == [ start |-> 0, end |-> 0, before |-> 0, padding |-> 0 ]

(***************************************************************************)
(* The inputs of redact_text.                                              *)
(***************************************************************************)
Sample == << "0", "1", "2", "3", "4", "5", "6", "7", "8", "9",
             "q", "r", "s", "t", "u", "v", "w" >>

\* the empty text, a short one, and the two longest: long enough for a span
\* to exceed its marker, and for another span to follow it
TextLens == { 0, 3, MaxLen - 1, MaxLen }

Texts == { SubSeq(Sample, 1, n) : n \in TextLens }

Labels == { << "a" >>, << "B" >> }

\* the offsets entities are drawn from: a grid, the end of the text, and one
\* past the end
Grid == { 0, 2, 13 }

Cuts(t) == { p \in Grid : p <= Len(t) } \cup { Len(t), Len(t) + 1 }

Entities(t) ==
    { x \in [ start : Cuts(t), end : Cuts(t), label : Labels ] : x.start <= x.end }

RECURSIVE ListsOf(_, _)
ListsOf(S, n) ==
    IF n = 0 THEN { << >> }
    ELSE LET shorter == ListsOf(S, n - 1)
         IN  shorter \cup { Append(l, x) : l \in { m \in shorter : Len(m) = n - 1 }, x \in S }

RedactInit ==
    /\ text \in Texts
    /\ entitiesNone \in BOOLEAN
    /\ entities \in IF entitiesNone THEN { << >> } ELSE ListsOf(Entities(text), MaxEnts)
    /\ ents = << >>
    /\ redacted_text = << >>
    /\ offset = 0
    /\ i = 1
    /\ pc = "call"
    /\ result = << >>
    /\ lastSlice = NoSlice
    /\ calls = 1
    /\ firstText = text
    /\ firstEntities = entities
    /\ firstResult = << >>

\* lines 36-38: sorted(None) raises TypeError
Enter ==
    /\ UNCHANGED << exportVars, fileVars >>
    /\ pc = "call"
    /\ IF entitiesNone
       THEN /\ pc' = "raised"
            /\ UNCHANGED << ents, redacted_text, offset, i >>
       ELSE /\ ents' = SortEntities(entities)
            /\ redacted_text' = InitialRedacted(text)
            /\ offset' = 0
            /\ i' = 1
            /\ pc' = "loop"
    /\ UNCHANGED << text, entities, entitiesNone, result, lastSlice, calls, firstText,
                    firstEntities, firstResult >>

\* lines 40-49: one iteration
Iterate ==
    /\ UNCHANGED << exportVars, fileVars >>
    /\ pc = "loop"
    /\ i <= Len(ents)
    /\ LET r == LoopBody(redacted_text, offset, ents[i])
       IN  /\ redacted_text' = r.redacted_text
           /\ offset' = r.offset
           /\ lastSlice' = r.slice
    /\ i' = i + 1
    /\ UNCHANGED << text, entities, entitiesNone, ents, pc, result, calls, firstText,
                    firstEntities, firstResult >>

\* line 51
Return ==
    /\ UNCHANGED << exportVars, fileVars >>
    /\ pc = "loop"
    /\ i > Len(ents)
    /\ result' = redacted_text
    /\ pc' = "returned"
    /\ UNCHANGED << text, entities, entitiesNone, ents, redacted_text, offset, i, lastSlice,
                    calls, firstText, firstEntities, firstResult >>

\* redact(redact(text, E), []): the result redacted again with no entities
CallAgain ==
    /\ UNCHANGED << exportVars, fileVars >>
    /\ pc = "returned"
    /\ calls = 1
    /\ text' = result
    /\ entities' = << >>
    /\ entitiesNone' = FALSE
    /\ firstResult' = result
    /\ calls' = 2
    /\ pc' = "call"
    /\ result' = << >>
    /\ lastSlice' = NoSlice
    /\ UNCHANGED << ents, redacted_text, offset, i, firstText, firstEntities >>

RedactNext == Enter \/ Iterate \/ Return \/ CallAgain

(***************************************************************************)
(* What the claims about redact_text are stated with.                      *)
(***************************************************************************)
\* 0 <= start < end <= len(text)
InRange(e, t) == 0 <= e.start /\ e.start < e.end /\ e.end <= Len(t)

AllInRange(es, t) == \A j \in 1..Len(es) : InRange(es[j], t)

\* the half-open ranges [start, end) of a and b share a position
Overlap(a, b) == a.start < b.end /\ b.start < a.end

NonOverlapping(es) ==
    \A j \in 1..Len(es) : \A k \in 1..Len(es) : j < k => ~Overlap(es[j], es[k])

\* every ordering of the list es
Perms(es) ==
    LET n == Len(es)
        bij == { p \in [1..n -> 1..n] : \A j \in 1..n : \E k \in 1..n : p[k] = j }
    IN  { [j \in 1..n |-> es[p[j]]] : p \in bij }

\* es in ascending start order, found without the code's sort
AscendingStart(es) ==
    CHOOSE p \in Perms(es) : \A j \in 1..Len(p) : \A k \in 1..Len(p) :
        j < k => p[j].start <= p[k].start

\* the marker of an entity, right-padded with spaces to the span length
PaddedMarker(e) ==
    LET m == RedactedLabel(e.label)
    IN  m \o Spaces((e.end - e.start) - Len(m))

\* the text rebuilt from the original offsets: es ascending and disjoint,
\* pos the end of the last span replaced
RECURSIVE ReferenceFrom(_, _, _, _)
ReferenceFrom(t, es, n, pos) ==
    IF n > Len(es) THEN SubSeq(t, pos + 1, Len(t))
    ELSE SubSeq(t, pos + 1, es[n].start) \o PaddedMarker(es[n])
            \o ReferenceFrom(t, es, n + 1, es[n].end)

Reference(t, es) == ReferenceFrom(t, AscendingStart(es), 1, 0)

\* the greedy selection of the claim: es in the claim's order, an entity kept
\* only if it starts at or after the end of the last kept one
RECURSIVE GreedyFrom(_, _, _)
GreedyFrom(es, n, lastEnd) ==
    IF n > Len(es) THEN << >>
    ELSE IF es[n].start >= lastEnd
         THEN << es[n] >> \o GreedyFrom(es, n + 1, es[n].end)
         ELSE GreedyFrom(es, n + 1, lastEnd)

Greedy(es) == GreedyFrom(SortEntities(es), 1, 0)

\* the first call has returned
FirstReturned == pc = "returned" /\ calls = 1

\* C1: for in-range entities the output of redact_text is the output of
\* redacting only the greedily selected, pairwise disjoint subset (ascending
\* start, longer span first on a tie); the overlapping rest is dropped.
C1_OverlapsDropped ==
    (FirstReturned /\ AllInRange(entities, text))
        => result = Reference(text, Greedy(entities))

\* C2: for pairwise non-overlapping in-range entities the output is the
\* reference built from the original offsets: the text between the spans
\* copied in order, each span replaced by its marker, space-padded to the
\* span length when the marker is shorter.
C2_OffsetCorrect ==
    (FirstReturned /\ AllInRange(entities, text) /\ NonOverlapping(entities))
        => result = Reference(text, entities)

\* C2's case: a padded span followed by a second span has been redacted.
C2_Witness ==
    /\ FirstReturned /\ AllInRange(entities, text) /\ NonOverlapping(entities)
    /\ Len(entities) = 2
    /\ \E j \in 1..2 : \E k \in 1..2 :
          /\ entities[j].end - entities[j].start > Len(RedactedLabel(entities[j].label))
          /\ entities[k].start >= entities[j].end

C4_NoEntitiesNoChange ==
    /\ (entitiesNone \/ entities = << >>) =>
          /\ pc # "raised"
          /\ pc = "returned" => result = text
    /\ (calls = 2 /\ pc = "returned") => result = firstResult

\* C4 amended: with the empty list the call returns the text unchanged and
\* does not raise; with None it raises (sorted(None)) and returns nothing;
\* redact(redact(text, E), []) equals redact(text, E).
C4_EmptyListNoChange ==
    /\ (~entitiesNone /\ entities = << >>) =>
          /\ pc # "raised"
          /\ pc = "returned" => result = text
    /\ entitiesNone => pc \in { "call", "raised" }
    /\ (calls = 2 /\ pc = "returned") => result = firstResult

\* C4's case: a redacted text has been redacted again with the empty list.
C4_Witness ==
    /\ calls = 2 /\ pc = "returned"
    /\ Len(firstEntities) > 0
    /\ firstResult # firstText

\* the entities that are neither zero-length nor applied to the empty text
Effective(es, t) ==
    SelectSeq(es, LAMBDA e : e.start # e.end /\ t # << >>)

\* C5: a zero-length entity, and any entity on the empty text, raises nothing
\* and leaves the output as it is without that entity; redact("", E) = "".
C5_DegenerateNoOp ==
    /\ ~entitiesNone => pc # "raised"
    /\ FirstReturned =>
          /\ result = RedactText(text, Effective(entities, text))
          /\ text = << >> => result = << >>

\* the call redacts the whole of a non-empty text with one entity
WholeText ==
    /\ FirstReturned /\ text # << >> /\ Len(entities) = 1
    /\ entities[1].start = 0 /\ entities[1].end = Len(text)

\* the slice of the last iteration lies inside the working text
SliceInBounds ==
    /\ 0 <= lastSlice.start
    /\ lastSlice.start <= lastSlice.end
    /\ lastSlice.end <= lastSlice.before

\* C6 as stated: the single entity {0, len(text), X} on a non-empty text
\* returns exactly the marker of X, and no slice has negative length.
C6_WholeTextExact ==
    WholeText => (result = RedactedLabel(entities[1].label) /\ SliceInBounds)

\* C6 amended: the single entity {0, len(text), X} on a non-empty text
\* returns the marker of X followed by len(text) - len(marker) spaces when
\* the text is longer than the marker and by nothing otherwise, and no slice
\* has negative length.
C6_WholeTextPadded ==
    WholeText =>
        LET m == RedactedLabel(entities[1].label)
        IN  /\ result = m \o Spaces(Max(0, Len(text) - Len(m)))
            /\ Len(result) = Max(Len(text), Len(m))
            /\ SliceInBounds

\* C6's case: a whole text longer than its marker has been redacted.
C6_Witness ==
    WholeText /\ Len(text) > Len(RedactedLabel(entities[1].label))

\* the entities the loop has still to apply keep their shifted start and end
\* inside the working text
ShiftedInside ==
    \A j \in i..Len(ents) :
        /\ 0 <= ents[j].start + offset
        /\ ents[j].start + offset < ents[j].end + offset
        /\ ents[j].end + offset <= Len(redacted_text)

\* C11: for every text and every list of in-range entities
\* (0 <= start < end <= len(text)), overlapping or not, on entering the loop
\* and after each iteration the working text is len(text) + offset long and
\* offset >= 0; the slice just taken lay inside the working text and so does
\* the shifted span of every entity still to come; the text returned is never
\* shorter than the input.
C11_RunningOffset ==
    (~entitiesNone /\ AllInRange(entities, text) /\ pc \in { "loop", "returned" }) =>
        /\ Len(redacted_text) = Len(text) + offset
        /\ offset >= 0
        /\ ShiftedInside
        /\ 0 <= lastSlice.start /\ lastSlice.end <= lastSlice.before
        /\ pc = "returned" => Len(result) >= Len(text)

\* C11's case: two in-range entities that overlap have both been applied, the
\* first one having moved the offset.
C11_Witness ==
    /\ pc = "returned"
    /\ ~entitiesNone
    /\ AllInRange(entities, text)
    /\ Len(ents) = 2
    /\ Overlap(ents[1], ents[2])
    /\ ents[1].start < ents[2].start
    /\ offset > 0
    /\ Len(result) > Len(text)

(***************************************************************************)
(* String helpers of the exporters.                                        *)
(***************************************************************************)
\* the characters str.strip() removes
IsSpace(c) == c \in { " ", "\t", "\n", "\r" }

RECURSIVE LStrip(_)
LStrip(s) == IF s # << >> /\ IsSpace(Head(s)) THEN LStrip(Tail(s)) ELSE s

RECURSIVE RStrip(_)
RStrip(s) ==
    IF s # << >> /\ IsSpace(s[Len(s)]) THEN RStrip(SubSeq(s, 1, Len(s) - 1)) ELSE s

\* s.strip()
Strip(s) == RStrip(LStrip(s))

\* s.startswith(prefix)
StartsWith(s, prefix) ==
    Len(s) >= Len(prefix) /\ SubSeq(s, 1, Len(prefix)) = prefix

\* s.endswith(suffix)
EndsWith(s, suffix) ==
    Len(s) >= Len(suffix) /\ SubSeq(s, Len(s) - Len(suffix) + 1, Len(s)) = suffix

\* s.split(sep) for a one-character sep: always at least one piece
RECURSIVE SplitFrom(_, _, _, _)
SplitFrom(s, sep, n, piece) ==
    IF n > Len(s) THEN << piece >>
    ELSE IF s[n] = sep THEN << piece >> \o SplitFrom(s, sep, n + 1, << >>)
         ELSE SplitFrom(s, sep, n + 1, Append(piece, s[n]))

Split(s, sep) == SplitFrom(s, sep, 1, << >>)

\* sep.join(parts)
RECURSIVE Join(_, _)
Join(parts, sep) ==
    IF parts = << >> THEN << >>
    ELSE IF Len(parts) = 1 THEN parts[1]
         ELSE parts[1] \o << sep >> \o Join(Tail(parts), sep)

(***************************************************************************)
(* markdown_to_table_data and the exporters                                *)
(***************************************************************************)

\* line.strip().startswith('|') and line.strip().endswith('|')
\*     and not line.strip().startswith('| ---')
IsTableRow(line) ==
    /\ StartsWith(Strip(line), << "|" >>)
    /\ EndsWith(Strip(line), << "|" >>)
    /\ ~StartsWith(Strip(line), << "|", " ", "-", "-", "-" >>)

\* [cell.strip() for cell in line.split('|')[1:-1]]
Cells(line) ==
    LET parts == PySlice(Split(line, "|"), 1, 0 - 1)
    IN  [k \in 1..Len(parts) |-> Strip(parts[k])]

\* a parser that never stops: it resumes the table after an interruption
NeverStops(td) == FALSE

\* elif table_data: break
StopsAt(td) == td # << >>

\* [line for line in markdown_text.split('\n') if not line.startswith('|')]
NonPipeLines(md) ==
    SelectSeq(Split(md, "\n"), LAMBDA l : ~StartsWith(l, << "|" >>))

\* remaining_text, split again, blank lines skipped, each line stripped
Remaining(md) ==
    LET remaining_text == Join(NonPipeLines(md), "\n")
        kept == SelectSeq(Split(remaining_text, "\n"), LAMBDA l : Strip(l) # << >>)
    IN  [k \in 1..Len(kept) |-> Strip(kept[k])]

cell_width == 150

cell_height == 30

line_height == 20

min_width == 600

min_height == 400

margin == 10

height_pad == 50

\* the rectangles markdown_to_image draws for the rows td, row by row
ImageRects(td) ==
    LET RowRects(r) ==
            [c \in 1..Len(td[r]) |->
                [ x0 |-> margin + (c - 1) * cell_width,
                  y0 |-> margin + (r - 1) * cell_height,
                  x1 |-> margin + c * cell_width,
                  y1 |-> margin + r * cell_height,
                  row |-> r - 1, col |-> c - 1 ]]
        Cat[r \in 0..Len(td)] == IF r = 0 THEN << >> ELSE Cat[r - 1] \o RowRects(r)
    IN  Cat[Len(td)]

\* the extension: original_filename.split('.')[-1].lower()
Extensions == { "txt", "docx", "pdf", "jpg", "png", "csv" }

LineSamples ==
    { << "|", " ", "a", " ", "|", " ", "b", " ", "|" >>,
      << "|", " ", "-", "-", "-", " ", "|" >>,
      << "r", "o", "w" >>,
      << "|", " ", "c", " ", "|", " ", "d", " ", "|" >>,
      << >>,
      << " ", "|", " ", "e", " ", "|" >>,
      << "|", "f", "|" >>,
      << "|", "g", "|", "h", "|", "i", "|", "j", "|" >> }

\* every markdown text of 1..MaxLines sample lines
Markdowns ==
    { Join(ls, "\n") : ls \in ListsOf(LineSamples, MaxLines) \ { << >> } }

ExportIdle ==
    /\ markdown_text = << >>
    /\ original_filename = "txt"
    /\ xpc = "idle"
    /\ lines = << >>
    /\ line_idx = 1
    /\ table_data = << >>
    /\ docx_shape = [ rows |-> 0, cols |-> 0 ]
    /\ docx_writes = << >>
    /\ pdf_table = << >>
    /\ img_size = [ width |-> 0, height |-> 0 ]
    /\ img_rects = << >>
    /\ img_texts = << >>
    /\ paragraphs = << >>
    /\ out_bytes = << >>

ExportInit ==
    /\ markdown_text \in Markdowns
    /\ original_filename \in Extensions
    /\ xpc = "start"
    /\ lines = << >>
    /\ line_idx = 1
    /\ table_data = << >>
    /\ docx_shape = [ rows |-> 0, cols |-> 0 ]
    /\ docx_writes = << >>
    /\ pdf_table = << >>
    /\ img_size = [ width |-> 0, height |-> 0 ]
    /\ img_rects = << >>
    /\ img_texts = << >>
    /\ paragraphs = << >>
    /\ out_bytes = << >>

\* convert_to_original_format: txt and unknown extensions encode the text as
\* it is; the others call their exporter, which first parses the table
Dispatch ==
    /\ UNCHANGED << redactVars, fileVars >>
    /\ xpc = "start"
    /\ IF original_filename \in { "docx", "pdf", "jpg", "png" }
       THEN /\ lines' = Split(markdown_text, "\n")
            /\ line_idx' = 1
            /\ table_data' = << >>
            /\ xpc' = "table"
            /\ UNCHANGED out_bytes
       ELSE /\ out_bytes' = markdown_text
            /\ xpc' = "done"
            /\ UNCHANGED << lines, line_idx, table_data >>
    /\ UNCHANGED << markdown_text, original_filename, docx_shape, docx_writes,
                    pdf_table, img_size, img_rects, img_texts, paragraphs >>

\* markdown_to_table_data: one line that does not end the loop
ScanLine ==
    /\ UNCHANGED << redactVars, fileVars >>
    /\ xpc = "table"
    /\ line_idx <= Len(lines)
    /\ IsTableRow(lines[line_idx]) \/ ~StopsAt(table_data)
    /\ table_data' = IF IsTableRow(lines[line_idx])
                     THEN Append(table_data, Cells(lines[line_idx]))
                     ELSE table_data
    /\ line_idx' = line_idx + 1
    /\ UNCHANGED << markdown_text, original_filename, xpc, lines, docx_shape,
                    docx_writes, pdf_table, img_size, img_rects, img_texts,
                    paragraphs, out_bytes >>

\* markdown_to_table_data: break at a non-table line once a row is captured,
\* or the end of the lines; return table_data
EndScan ==
    /\ UNCHANGED << redactVars, fileVars >>
    /\ xpc = "table"
    /\ \/ line_idx > Len(lines)
       \/ /\ line_idx <= Len(lines)
          /\ ~IsTableRow(lines[line_idx])
          /\ StopsAt(table_data)
    /\ xpc' = "render"
    /\ UNCHANGED << markdown_text, original_filename, lines, line_idx, table_data,
                    docx_shape, docx_writes, pdf_table, img_size, img_rects,
                    img_texts, paragraphs, out_bytes >>

\* the cells table.cell(i, j).text = cell reaches, row by row, up to the first
\* one outside the rows * cols cells of the table (python-docx indexes the
\* flat cell list at j + i * cols and raises IndexError past its end)
DocxWrites(td, cols) ==
    LET RowWrites(r) ==
            [c \in 1..Len(td[r]) |->
                [ i |-> r - 1, j |-> c - 1, index |-> (c - 1) + (r - 1) * cols,
                  text |-> td[r][c] ]]
        Cat[r \in 0..Len(td)] == IF r = 0 THEN << >> ELSE Cat[r - 1] \o RowWrites(r)
    IN  Cat[Len(td)]

\* markdown_to_docx after the table is parsed
RenderDocx ==
    /\ UNCHANGED << redactVars, fileVars >>
    /\ xpc = "render"
    /\ original_filename = "docx"
    /\ LET cols == IF table_data = << >> THEN 0 ELSE Len(table_data[1])
           rows == Len(table_data)
           writes == DocxWrites(table_data, cols)
           bad == { k \in 1..Len(writes) : writes[k].index >= rows * cols }
           first_bad == CHOOSE k \in bad : \A m \in bad : k <= m
       IN  /\ docx_shape' = [ rows |-> rows, cols |-> cols ]
           /\ IF bad = { }
              THEN /\ docx_writes' = writes
                   /\ paragraphs' = Remaining(markdown_text)
                   /\ xpc' = "done"
              ELSE /\ docx_writes' = SubSeq(writes, 1, first_bad)
                   /\ paragraphs' = << >>
                   /\ xpc' = "raised"
    /\ UNCHANGED << markdown_text, original_filename, lines, line_idx, table_data,
                    pdf_table, img_size, img_rects, img_texts, out_bytes >>

\* markdown_to_pdf after the table is parsed
RenderPdf ==
    /\ UNCHANGED << redactVars, fileVars >>
    /\ xpc = "render"
    /\ original_filename = "pdf"
    /\ pdf_table' = table_data
    /\ paragraphs' = Remaining(markdown_text)
    /\ xpc' = "done"
    /\ UNCHANGED << markdown_text, original_filename, lines, line_idx, table_data,
                    docx_shape, docx_writes, img_size, img_rects, img_texts,
                    out_bytes >>

\* markdown_to_image after the table is parsed
RenderImage ==
    /\ UNCHANGED << redactVars, fileVars >>
    /\ xpc = "render"
    /\ original_filename \in { "jpg", "png" }
    /\ LET num_rows == Len(table_data)
           num_cols == IF table_data # << >> /\ table_data[1] # << >>
                       THEN Len(table_data[1]) ELSE 0
           rem == Remaining(markdown_text)
           y == margin + num_rows * cell_height
       IN  /\ img_size' =
                [ width |-> Max(num_cols * cell_width, min_width),
                  height |-> Max(num_rows * cell_height
                                  + (Len(Split(markdown_text, "\n")) - num_rows) * line_height
                                  + height_pad, min_height) ]
           /\ img_rects' = ImageRects(table_data)
           /\ img_texts' = [k \in 1..Len(rem) |->
                              [ x |-> margin, y |-> y + (k - 1) * line_height ]]
           /\ paragraphs' = rem
    /\ xpc' = "done"
    /\ UNCHANGED << markdown_text, original_filename, lines, line_idx, table_data,
                    docx_shape, docx_writes, pdf_table, out_bytes >>

ExportNext == Dispatch \/ ScanLine \/ EndScan \/ RenderDocx \/ RenderPdf \/ RenderImage

(***************************************************************************)
(* What the claims about the table parser and the exporters are stated     *)
(* with.                                                                   *)
(***************************************************************************)
\* the least element of a non-empty set of numbers
Least(S) == CHOOSE k \in S : \A m \in S : k <= m

\* where the table of the lines ls lies: any says whether a line is a table
\* row, first is the first table row, end the first line after it that is
\* not a table row (one past the last line when there is none)
TableSpan(ls) ==
    LET isRow == [k \in 1..Len(ls) |-> IsTableRow(ls[k])]
        rows == { k \in 1..Len(ls) : isRow[k] }
        first == IF rows = { } THEN 0 ELSE Least(rows)
        after == { k \in (first + 1)..Len(ls) : ~isRow[k] }
    IN  [ any |-> rows # { }, first |-> first, rows |-> rows,
          end |-> IF after = { } THEN Len(ls) + 1 ELSE Least(after) ]

\* the rows of the first unbroken run of table rows of the lines ls
FirstRun(ls) ==
    LET span == TableSpan(ls)
    IN  IF ~span.any THEN << >>
        ELSE [k \in 1..(span.end - span.first) |-> Cells(ls[span.first + k - 1])]

\* an exporter has parsed the table of its text
Parsed ==
    /\ original_filename \in { "docx", "pdf", "jpg", "png" }
    /\ xpc \in { "render", "done", "raised" }

\* "| a | b |\n| --- |\nrow\n| c | d |"
SpecExample ==
    Join(<< << "|", " ", "a", " ", "|", " ", "b", " ", "|" >>,
            << "|", " ", "-", "-", "-", " ", "|" >>,
            << "r", "o", "w" >>,
            << "|", " ", "c", " ", "|", " ", "d", " ", "|" >> >>, "\n")

\* C7: markdown_to_table_data skips the lines before the first table row and
\* stops at the first line after it that is not a table row: the rows
\* captured are exactly the first unbroken run of table rows, no later pipe
\* line among them; the example of the spec gives the single row [a, b].
C7_TableStops ==
    Parsed =>
        /\ table_data = FirstRun(Split(markdown_text, "\n"))
        /\ markdown_text = SpecExample => table_data = << << << "a" >>, << "b" >> >> >>

\* C7's case: the table was interrupted and a table row follows the
\* interruption.
C7_Witness ==
    /\ Parsed
    /\ LET ls == Split(markdown_text, "\n")
           span == TableSpan(ls)
       IN  /\ span.any
           /\ \E k \in span.rows : k > span.end
           /\ \E k \in 1..(span.first - 1) : Strip(ls[k]) # << >>

\* a is b with some elements left out
RECURSIVE IsSubseq(_, _)
IsSubseq(a, b) ==
    IF a = << >> THEN TRUE
    ELSE IF b = << >> THEN FALSE
         ELSE IF Head(a) = Head(b) THEN IsSubseq(Tail(a), Tail(b))
              ELSE IsSubseq(a, Tail(b))

\* the non-blank pipe lines after the line that ended the table, trimmed
TrailingPipeLines(ls) ==
    LET span == TableSpan(ls)
        after == SelectSeq(SubSeq(ls, span.end + 1, Len(ls)),
                           LAMBDA l : StartsWith(Strip(l), << "|" >>))
    IN  IF ~span.any THEN << >> ELSE [k \in 1..Len(after) |-> Strip(after[k])]

\* C8: in the word-processor, PDF and image exporters every non-blank pipe
\* line after the end of the table is emitted as a plain-text paragraph or
\* line, in its original order.
C8_TrailingPipeEmitted ==
    (Parsed /\ xpc = "done") =>
        IsSubseq(TrailingPipeLines(Split(markdown_text, "\n")), paragraphs)

\* a markdown separator row: a pipe line whose trimmed form starts "| ---"
IsSeparator(line) ==
    /\ StartsWith(Strip(line), << "|", " ", "-", "-", "-" >>)
    /\ EndsWith(Strip(line), << "|" >>)

\* the lines ls are one contiguous table: a header row, a separator row, and
\* one or more body rows
HeaderSeparatorBody(ls) ==
    /\ Len(ls) >= 3
    /\ IsTableRow(ls[1])
    /\ IsSeparator(ls[2])
    /\ \A k \in 3..Len(ls) : IsTableRow(ls[k])

\* C12: for a contiguous table made of a header row, a separator row and one
\* or more body rows, markdown_to_table_data returns the header row and every
\* body row in order, only the separator left out, and the PDF exporter
\* renders those rows.
C12_SeparatorSkipped ==
    LET ls == Split(markdown_text, "\n")
    IN  (Parsed /\ HeaderSeparatorBody(ls)) =>
            /\ table_data = << Cells(ls[1]) >> \o [k \in 1..(Len(ls) - 2) |-> Cells(ls[k + 2])]
            /\ (original_filename = "pdf" /\ xpc = "done") => Len(pdf_table) = Len(ls) - 1

\* the image exporter has drawn its picture
Drawn == original_filename \in { "jpg", "png" } /\ xpc = "done"

\* C13: the canvas of markdown_to_image fits everything drawn on it: its
\* width is at least the right edge of every cell rectangle drawn, its height
\* at least the bottom of every table row drawn and of every plain-text line
\* drawn (a line drawn at y ends at y + 20).
C13_CanvasFits ==
    Drawn =>
        /\ \A k \in 1..Len(img_rects) : img_rects[k].x1 <= img_size.width
        /\ \A k \in 1..Len(img_rects) : img_rects[k].y1 <= img_size.height
        /\ \A k \in 1..Len(img_texts) : img_texts[k].y + line_height <= img_size.height

\* the word-processor exporter has written its table, or failed doing so
DocxWritten == original_filename = "docx" /\ xpc \in { "done", "raised" }

\* C14: every cell index (i, j) markdown_to_docx writes satisfies
\* i < number of captured rows and j < number of cells of the first captured
\* row, and the export does not fail, whatever the cell counts of the rows.
C14_DocxInBounds ==
    DocxWritten =>
        /\ \A k \in 1..Len(docx_writes) :
              /\ docx_writes[k].i < Len(table_data)
              /\ docx_writes[k].j < Len(table_data[1])
        /\ xpc # "raised"

(***************************************************************************)
(* clean_ocr_text                                                          *)
(***************************************************************************)
\* [a-zA-Z]
IsLetter(c) ==
    c \in { "a", "b", "c", "d", "e", "f", "g", "h", "i", "j", "k", "l", "m", "n", "o", "p", "q", "r", "s", "t", "u", "v", "w", "x", "y", "z",
            "A", "B", "C", "D", "E", "F", "G", "H", "I", "J", "K", "L", "M", "N", "O", "P", "Q", "R", "S", "T", "U", "V", "W", "X", "Y", "Z" }

\* \d
IsDigit(c) == c \in { "0", "1", "2", "3", "4", "5", "6", "7", "8", "9" }

\* how many copies of s[n] start at n
RECURSIVE RunLength(_, _)
RunLength(s, n) ==
    IF n < Len(s) /\ s[n + 1] = s[n] THEN 1 + RunLength(s, n + 1) ELSE 1

\* re.sub(r'([a-zA-Z])\1{2,}', r'\1', text)
RECURSIVE CollapseLetters(_, _)
CollapseLetters(s, n) ==
    IF n > Len(s) THEN << >>
    ELSE IF IsLetter(s[n]) /\ RunLength(s, n) >= 3
         THEN << s[n] >> \o CollapseLetters(s, n + RunLength(s, n))
         ELSE << s[n] >> \o CollapseLetters(s, n + 1)

\* how many whitespace characters start at n
RECURSIVE SpaceRun(_, _)
SpaceRun(s, n) ==
    IF n <= Len(s) /\ IsSpace(s[n]) THEN 1 + SpaceRun(s, n + 1) ELSE 0

\* re.sub(r'\s+', ' ', text)
RECURSIVE CollapseSpace(_, _)
CollapseSpace(s, n) ==
    IF n > Len(s) THEN << >>
    ELSE IF IsSpace(s[n])
         THEN << " " >> \o CollapseSpace(s, n + SpaceRun(s, n))
         ELSE << s[n] >> \o CollapseSpace(s, n + 1)

\* \$\d{4}-\d{2}-\d{2}\$ matches at n
DateAt(s, n) ==
    /\ n + 11 <= Len(s)
    /\ s[n] = "$" /\ s[n + 11] = "$"
    /\ s[n + 5] = "-" /\ s[n + 8] = "-"
    /\ \A k \in { 1, 2, 3, 4, 6, 7, 9, 10 } : IsDigit(s[n + k])

\* re.sub(r'\$(\d{4}-\d{2}-\d{2})\$', r'\1', text)
RECURSIVE UnwrapDates(_, _)
UnwrapDates(s, n) ==
    IF n > Len(s) THEN << >>
    ELSE IF DateAt(s, n)
         THEN SubSeq(s, n + 1, n + 10) \o UnwrapDates(s, n + 12)
         ELSE << s[n] >> \o UnwrapDates(s, n + 1)

\* re.sub(r'\n+', '\n', text), and with least = 2 re.sub(r'\n{2,}', '\n', text)
RECURSIVE CollapseNewlines(_, _, _)
CollapseNewlines(s, n, least) ==
    IF n > Len(s) THEN << >>
    ELSE IF s[n] = "\n" /\ RunLength(s, n) >= least
         THEN << "\n" >> \o CollapseNewlines(s, n + RunLength(s, n), least)
         ELSE << s[n] >> \o CollapseNewlines(s, n + 1, least)

clean_ocr_text(t) ==
    Strip(CollapseNewlines(UnwrapDates(CollapseSpace(CollapseLetters(t, 1), 1), 1), 1, 1))

(***************************************************************************)
(* extract_text_from_file and redact_file_content                          *)
(***************************************************************************)
\* str(n) for n >= 0
RECURSIVE Str(_)
Str(n) ==
    LET d == << "0", "1", "2", "3", "4", "5", "6", "7", "8", "9" >>[(n % 10) + 1]
    IN  IF n < 10 THEN << d >> ELSE Str(n \div 10) \o << d >>

\* extract_text_from_image on the pages the OCR service answered with
ExtractFromImage(ocr_pages) ==
    LET Cat[k \in 0..Len(ocr_pages)] ==
            IF k = 0 THEN << >> ELSE Cat[k - 1] \o ocr_pages[k] \o << "\n", "\n" >>
    IN  clean_ocr_text(Cat[Len(ocr_pages)])

\* a page is sent to OCR only when it has no text at all
LowConfidenceEmptyOnly(page_text) == page_text = << >>

\* the fewest characters a page's own text must have
min_chars == 10

\* not page_text or len(page_text.strip()) < 10
LowConfidence(page_text) == page_text = << >> \/ Len(Strip(page_text)) < min_chars

\* f"\n[Page {page_num + 1}]\n{page_text}"
PageBlock(n, page_text) ==
    << "\n", "[", "P", "a", "g", "e", " " >> \o Str(n) \o << "]", "\n" >> \o page_text

\* f"\n[Page {page_num + 1}] - Unable to extract text"
UnableBlock(n) ==
    << "\n", "[", "P", "a", "g", "e", " " >> \o Str(n) \o << "]", " ", "-", " ", "U", "n", "a", "b", "l", "e", " ", "t", "o", " ", "e", "x", "t", "r", "a", "c", "t", " ", "t", "e", "x", "t" >>

\* a text is there whenever extraction did not return None
HasTextNotNone(none, t) == ~none

\* if original_text:
HasText(none, t) == ~none /\ t # << >>

\* the extensions of the files handed to redact_file_content
FileExtensions == { "txt", "docx", "pdf", "png", "csv" }

\* what a txt file decodes to, and what docx2txt makes of a docx file
PlainContents == { << >>, << " ", "\n" >>, << "a", "a", "a", "b", "\n", "\n", " ", "c" >> }

\* what page.extract_text(layout=True) gives for one page
PageTexts == { << >>, << "0", "1", "2", "3", "4", "5", "6", "7", "8" >>, << "0", "1", "2", "3", "4", "5", "6", "7", "8", "9" >>, << " ", " ", "a", "b", "c", "c", "c", "d", " ", " ", " ", " ", " " >> }

\* what the OCR service answers with: the markdown of each page it recognised
OcrAnswers == { << >>, << << "o", " ", "c", " ", "r" >> >>, << << "$", "2", "0", "2", "4", "-", "0", "1", "-", "0", "2", "$" >>, << "x" >> >> }

FileContents(ext) ==
    IF ext \in { "txt", "docx" } THEN PlainContents
    ELSE IF ext = "pdf" THEN ListsOf(PageTexts, MaxPages)
    ELSE { << >> }

LabelSets == { "Low", "High" }

Thresholds == { 1, 5 }

\* what the detector may answer for the text t
Detectable(t) ==
    { e \in Entities(t) : e.label = << "a" >> /\ e.start \in { 0, 2 } /\ e.end = Len(t)
                          /\ e.start < e.end }

NoReturn == [ set |-> FALSE, none |-> FALSE, original |-> << >>, redacted |-> << >>,
              entities |-> << >> ]

FileIdle ==
    /\ file_ext = "txt"
    /\ file_content = << >>
    /\ labels = "Low"
    /\ threshold = 1
    /\ fpc = "idle"
    /\ page_num = 0
    /\ pdf_text = << >>
    /\ emitted = << >>
    /\ original_text = << >>
    /\ original_none = FALSE
    /\ detector_log = << >>
    /\ detected = << >>
    /\ ret = NoReturn
    /\ trace = << >>

FileInit ==
    /\ file_ext \in FileExtensions
    /\ file_content \in FileContents(file_ext)
    /\ labels \in LabelSets
    /\ threshold \in Thresholds
    /\ fpc = "start"
    /\ page_num = 0
    /\ pdf_text = << >>
    /\ emitted = << >>
    /\ original_text = << >>
    /\ original_none = FALSE
    /\ detector_log = << >>
    /\ detected = << >>
    /\ ret = NoReturn
    /\ trace = << >>

\* lines 124-131 and 158-159: a txt file, a docx file, an unknown extension
ExtractPlain ==
    /\ UNCHANGED << redactVars, exportVars >>
    /\ fpc = "start"
    /\ file_ext \notin { "pdf", "jpg", "png" }
    /\ original_none' = (file_ext \notin { "txt", "docx" })
    /\ original_text' =
          IF file_ext = "txt" THEN clean_ocr_text(file_content)
          ELSE IF file_ext = "docx"
               THEN clean_ocr_text(CollapseNewlines(file_content, 1, 2))
               ELSE << >>
    /\ fpc' = "extracted"
    /\ trace' = Append(trace, "extract")
    /\ UNCHANGED << file_ext, file_content, labels, threshold, page_num, pdf_text,
                    emitted, detector_log, detected, ret >>

\* lines 155-156: an image, the OCR service answering
ExtractImage ==
    /\ UNCHANGED << redactVars, exportVars >>
    /\ fpc = "start"
    /\ file_ext \in { "jpg", "png" }
    /\ \E answer \in OcrAnswers : original_text' = ExtractFromImage(answer)
    /\ original_none' = FALSE
    /\ fpc' = "extracted"
    /\ trace' = Append(trace, "extract")
    /\ UNCHANGED << file_ext, file_content, labels, threshold, page_num, pdf_text,
                    emitted, detector_log, detected, ret >>

\* lines 155-156 and 161-162: an image, the OCR service failing
ExtractImageRaises ==
    /\ UNCHANGED << redactVars, exportVars >>
    /\ fpc = "start"
    /\ file_ext \in { "jpg", "png" }
    /\ fpc' = "raised"
    /\ trace' = Append(trace, "extract")
    /\ UNCHANGED << file_ext, file_content, labels, threshold, page_num, pdf_text,
                    emitted, original_text, original_none, detector_log, detected,
                    ret >>

\* lines 133-135: a PDF is opened
PdfOpen ==
    /\ UNCHANGED << redactVars, exportVars >>
    /\ fpc = "start"
    /\ file_ext = "pdf"
    /\ pdf_text' = << >>
    /\ page_num' = 0
    /\ emitted' = << >>
    /\ fpc' = "pages"
    /\ trace' = Append(trace, "extract")
    /\ UNCHANGED << file_ext, file_content, labels, threshold, original_text,
                    original_none, detector_log, detected, ret >>

\* lines 148-152: the page is given its block
AppendPage(page_text, ocr) ==
    /\ IF page_text # << >>
       THEN pdf_text' = pdf_text \o PageBlock(page_num + 1, clean_ocr_text(page_text))
       ELSE pdf_text' = pdf_text \o UnableBlock(page_num + 1)
    /\ emitted' = Append(emitted,
          [ page |-> page_num + 1, ocr |-> ocr, found |-> page_text # << >>,
            body |-> IF page_text # << >> THEN clean_ocr_text(page_text) ELSE << >> ])
    /\ page_num' = page_num + 1

\* lines 136-152: a page whose own text is long enough
PdfPageDirect ==
    /\ UNCHANGED << redactVars, exportVars >>
    /\ fpc = "pages"
    /\ page_num < Len(file_content)
    /\ ~LowConfidence(file_content[page_num + 1])
    /\ AppendPage(file_content[page_num + 1], FALSE)
    /\ UNCHANGED << file_ext, file_content, labels, threshold, fpc, original_text,
                    original_none, detector_log, detected, ret, trace >>

\* lines 136-152: a page sent to OCR, the OCR service answering
PdfPageOcr ==
    /\ UNCHANGED << redactVars, exportVars >>
    /\ fpc = "pages"
    /\ page_num < Len(file_content)
    /\ LowConfidence(file_content[page_num + 1])
    /\ \E answer \in OcrAnswers : AppendPage(ExtractFromImage(answer), TRUE)
    /\ UNCHANGED << file_ext, file_content, labels, threshold, fpc, original_text,
                    original_none, detector_log, detected, ret, trace >>

\* lines 139-147 and 161-162: a page sent to OCR, the OCR service failing
PdfPageOcrRaises ==
    /\ UNCHANGED << redactVars, exportVars >>
    /\ fpc = "pages"
    /\ page_num < Len(file_content)
    /\ LowConfidence(file_content[page_num + 1])
    /\ fpc' = "raised"
    /\ UNCHANGED << file_ext, file_content, labels, threshold, page_num, pdf_text,
                    emitted, original_text, original_none, detector_log, detected,
                    ret, trace >>

\* line 153: return text.strip()
PdfReturn ==
    /\ UNCHANGED << redactVars, exportVars >>
    /\ fpc = "pages"
    /\ page_num = Len(file_content)
    /\ original_text' = Strip(pdf_text)
    /\ original_none' = FALSE
    /\ fpc' = "extracted"
    /\ UNCHANGED << file_ext, file_content, labels, threshold, page_num, pdf_text,
                    emitted, detector_log, detected, ret, trace >>

\* lines 340 and 344: no text, return None, None, []
ReturnNothing ==
    /\ UNCHANGED << redactVars, exportVars >>
    /\ fpc = "extracted"
    /\ ~HasText(original_none, original_text)
    /\ ret' = [ set |-> TRUE, none |-> TRUE, original |-> << >>, redacted |-> << >>,
                entities |-> << >> ]
    /\ fpc' = "returned"
    /\ UNCHANGED << file_ext, file_content, labels, threshold, page_num, pdf_text,
                    emitted, original_text, original_none, detector_log, detected,
                    trace >>

\* line 341: model.predict_entities(original_text, labels, threshold=threshold)
Detect ==
    /\ UNCHANGED << redactVars, exportVars >>
    /\ fpc = "extracted"
    /\ HasText(original_none, original_text)
    /\ detector_log' = Append(detector_log,
          [ text |-> original_text, labels |-> labels, threshold |-> threshold ])
    /\ detected' \in ListsOf(Detectable(original_text), MaxEnts)
    /\ fpc' = "detected"
    /\ trace' = Append(trace, "detect")
    /\ UNCHANGED << file_ext, file_content, labels, threshold, page_num, pdf_text,
                    emitted, original_text, original_none, ret >>

\* line 341: the detector failing
DetectRaises ==
    /\ UNCHANGED << redactVars, exportVars >>
    /\ fpc = "extracted"
    /\ HasText(original_none, original_text)
    /\ detector_log' = Append(detector_log,
          [ text |-> original_text, labels |-> labels, threshold |-> threshold ])
    /\ fpc' = "raised"
    /\ trace' = Append(trace, "detect")
    /\ UNCHANGED << file_ext, file_content, labels, threshold, page_num, pdf_text,
                    emitted, original_text, original_none, detected, ret >>

\* lines 342-343: redact_text, return original_text, redacted_text, entities
RedactAndReturn ==
    /\ UNCHANGED << redactVars, exportVars >>
    /\ fpc = "detected"
    /\ ret' = [ set |-> TRUE, none |-> FALSE, original |-> original_text,
                redacted |-> RedactText(original_text, detected),
                entities |-> detected ]
    /\ fpc' = "returned"
    /\ trace' = Append(trace, "redact")
    /\ UNCHANGED << file_ext, file_content, labels, threshold, page_num, pdf_text,
                    emitted, original_text, original_none, detector_log, detected >>

FileNext ==
    \/ ExtractPlain \/ ExtractImage \/ ExtractImageRaises
    \/ PdfOpen \/ PdfPageDirect \/ PdfPageOcr \/ PdfPageOcrRaises \/ PdfReturn
    \/ ReturnNothing \/ Detect \/ DetectRaises \/ RedactAndReturn

(***************************************************************************)
(* What the claims about extraction and the orchestrator are stated with.  *)
(***************************************************************************)
\* the PDF branch of extract_text_from_file has returned
ExtractedPdf ==
    /\ file_ext = "pdf"
    /\ fpc \notin { "start", "pages" }
    /\ page_num = Len(file_content)

\* the blocks of the pages in log, one after the other
RECURSIVE Render(_, _)
Render(log, n) ==
    IF n > Len(log) THEN << >>
    ELSE (IF log[n].found THEN PageBlock(log[n].page, log[n].body)
          ELSE UnableBlock(log[n].page)) \o Render(log, n + 1)

vars == << redactVars, exportVars, fileVars >>

RedactIdle ==
    /\ text = << >>
    /\ entities = << >>
    /\ entitiesNone = FALSE
    /\ ents = << >>
    /\ redacted_text = << >>
    /\ offset = 0
    /\ i = 1
    /\ pc = "idle"
    /\ result = << >>
    /\ lastSlice = NoSlice
    /\ calls = 0
    /\ firstText = << >>
    /\ firstEntities = << >>
    /\ firstResult = << >>

\* redact_text on every text and entity list of the bounds
Init ==
    /\ RedactInit
    /\ ExportIdle
    /\ FileIdle

Spec == Init /\ [][RedactNext]_vars

\* convert_to_original_format on every markdown text and extension
InitExport ==
    /\ ExportInit
    /\ RedactIdle
    /\ FileIdle

SpecExport == InitExport /\ [][ExportNext]_vars

\* redact_file_content on every file, label set and threshold of the bounds
InitFile ==
    /\ FileInit
    /\ RedactIdle
    /\ ExportIdle

SpecFile == InitFile /\ [][FileNext]_vars

=============================================================================
